---- MODULE Spec2Model ----
(***************************************************************************)
(* druxit: DrupalState.__init__ and the _load_* methods it runs, as a      *)
(* state machine over one run of the constructor.                          *)
(*                                                                         *)
(* Representation.  A Python str that the code takes apart (table names,   *)
(* column names, term names, paths) is a sequence of tokens, so that       *)
(* startswith / replace / lower are computed; other strings are atoms.     *)
(* A dict whose iteration order the code relies on is an ordered dict      *)
(* [keys, map]: keys in first-insertion order, map the current values.     *)
(* A Python object stored in two places is stored once, in its collection, *)
(* and referred to elsewhere by a reference [ref, id].                     *)
(***************************************************************************)
EXTENDS Integers, Sequences, FiniteSets, TLC

VARIABLES pc, db, conn, cur, users, users_data, users_field_data,
          taxonomies, files, path_alias, nodes, orphanedNodeBody

vars == <<pc, db, conn, cur, users, users_data, users_field_data,
          taxonomies, files, path_alias, nodes, orphanedNodeBody>>

(***************************************************************************)
(* Bounds of the explored stores.                                          *)
(***************************************************************************)
MaxNid == 2
MaxTid == 2
MaxIndexRows == 2
MaxAliasRows == 2
MaxFieldRows == 2
MaxBodyRows == 2

(***************************************************************************)
(* Generic helpers.                                                        *)
(***************************************************************************)
Range(s) == {s[i] : i \in DOMAIN s}

RECURSIVE FoldLeft(_, _, _)
FoldLeft(Op(_, _), acc, s) ==
    IF s = <<>> THEN acc ELSE FoldLeft(Op, Op(acc, Head(s)), Tail(s))

SeqsUpTo(S, n) == UNION {[1..k -> S] : k \in 0..n}

None == [None |-> TRUE]

\* Python dict / OrderedDict
ODEmpty == [keys |-> <<>>, map |-> <<>>]
ODHas(od, k) == k \in DOMAIN od.map
ODPut(od, k, v) ==
    [keys |-> IF k \in DOMAIN od.map THEN od.keys ELSE Append(od.keys, k),
     map  |-> (k :> v) @@ od.map]

Ref(coll, id) == [ref |-> coll, id |-> id]

\* str(int)
Digit(d) == <<"0", "1", "2", "3", "4", "5", "6", "7", "8", "9">>[d + 1]
RECURSIVE Str(_)
Str(n) == IF n < 10 THEN <<Digit(n)>> ELSE Str(n \div 10) \o <<Digit(n % 10)>>

\* str.startswith
StartsWith(s, prefix) ==
    /\ Len(s) >= Len(prefix)
    /\ SubSeq(s, 1, Len(prefix)) = prefix

\* str.replace(old, "")
RECURSIVE Remove(_, _)
Remove(s, old) ==
    IF s = <<>> THEN <<>>
    ELSE IF StartsWith(s, old) THEN Remove(SubSeq(s, Len(old) + 1, Len(s)), old)
    ELSE <<Head(s)>> \o Remove(Tail(s), old)

\* str.lower, str.replace(" ", "_") on a sequence of characters
UpperChars == <<"A", "B", "C", "D", "E", "F", "G", "H", "I", "J", "K", "L", "M",
                "N", "O", "P", "Q", "R", "S", "T", "U", "V", "W", "X", "Y", "Z">>
LowerChars == <<"a", "b", "c", "d", "e", "f", "g", "h", "i", "j", "k", "l", "m",
                "n", "o", "p", "q", "r", "s", "t", "u", "v", "w", "x", "y", "z">>
LowerChar(c) ==
    IF \E i \in DOMAIN UpperChars : UpperChars[i] = c
    THEN LowerChars[CHOOSE i \in DOMAIN UpperChars : UpperChars[i] = c]
    ELSE c
Lower(s) == [i \in DOMAIN s |-> LowerChar(s[i])]
ReplaceChar(s, old, new) == [i \in DOMAIN s |-> IF s[i] = old THEN new ELSE s[i]]

\* _row_to_od: the row's values in the order of cursor.description
RowToOd(row, description) == [c \in Range(description) |-> row[c]]

(***************************************************************************)
(* The store.  Tables with a fixed schema hold records; the node__* tables *)
(* found by SHOW TABLES hold rows keyed by their (tokenised) column names. *)
(***************************************************************************)
UsersCols == <<"uid", "uuid", "langcode">>
UsersDataCols == <<"uid", "module", "name", "value">>
UsersFieldDataCols == <<"uid", "langcode", "name", "status">>
TermDataCols == <<"tid", "vid">>
TermFieldDataCols == <<"tid", "vid", "name">>
FileManagedCols == <<"fid", "uid", "filename">>
PathAliasCols == <<"id", "path", "alias">>

UserRow(uid) == [uid |-> uid, uuid |-> <<"u">> \o Str(uid), langcode |-> "en"]
UserDataRow(uid, name) == [uid |-> uid, module |-> "contact", name |-> name, value |-> 1]
UserFieldDataRow(uid) == [uid |-> uid, langcode |-> "en", name |-> <<"user">> \o Str(uid), status |-> 1]
RoleRow(uid, del, role) == [entity_id |-> uid, deleted |-> del, roles_target_id |-> role]
TermRow(tid) == [tid |-> tid, vid |-> "tags"]
TermParentRow(tid, del, parent) == [entity_id |-> tid, deleted |-> del, parent_target_id |-> parent]
TermFieldDataRow(tid, name) == [tid |-> tid, vid |-> "tags", name |-> name]
FileRow(fid, uid) == [fid |-> fid, uid |-> uid, filename |-> <<"f">> \o Str(fid)]
FileMetaRow(fid, name, value) == [fid |-> fid, name |-> name, value |-> value]
AliasRow(id, path, alias) == [id |-> id, path |-> path, alias |-> alias]
NodeRow(nid) == [nid |-> nid, vid |-> nid, type |-> "page", uuid |-> <<"n">> \o Str(nid), langcode |-> "en"]
TitleOf(nid) == <<"Title ">> \o Str(nid)
NodeDataRow(nid) ==
    [nid |-> nid, title |-> TitleOf(nid), uid |-> 1, status |-> 1, created |-> 0, changed |-> 0]
IndexRow(nid, tid) == [nid |-> nid, tid |-> tid]

\* f"/node/{nid}"
NodePath(nid) == <<"/node/">> \o Str(nid)

\* columns every field-storage table has
StorageCols == << <<"bundle">>, <<"deleted">>, <<"entity_id">>, <<"revision_id">>,
                  <<"langcode">>, <<"delta">> >>
StorageRow(nid, del, delta, lang) ==
    (<<"bundle">> :> "page") @@ (<<"deleted">> :> del) @@ (<<"entity_id">> :> nid)
      @@ (<<"revision_id">> :> nid) @@ (<<"langcode">> :> lang) @@ (<<"delta">> :> delta)

RefTableName == <<"node__", "field_", "ref">>
RefTargetCol == <<"field_", "ref", "_", "target_id">>
TxtTableName == <<"node__", "field_", "txt">>
TxtValueCol == <<"field_", "txt", "_", "value">>
TxtFormatCol == <<"field_", "txt", "_", "format">>
BareTableName == <<"node__", "field_", "bare">>
BodyTableName == <<"node__", "body">>
BodyValueCol == <<"body", "_", "value">>

RefTable(rows) == [name |-> RefTableName, cols |-> Append(StorageCols, RefTargetCol), rows |-> rows]
RefRow(nid, del, delta, target) == StorageRow(nid, del, delta, "en") @@ (RefTargetCol :> target)
TxtTable(rows) ==
    [name |-> TxtTableName, cols |-> StorageCols \o <<TxtValueCol, TxtFormatCol>>, rows |-> rows]
TxtRow(nid, del, delta, value) ==
    StorageRow(nid, del, delta, "en") @@ (TxtValueCol :> value) @@ (TxtFormatCol :> "plain")
BareTable(rows) == [name |-> BareTableName, cols |-> StorageCols, rows |-> rows]
BareRow(nid, del, delta) == StorageRow(nid, del, delta, "en")
BodyTable(rows) == [name |-> BodyTableName, cols |-> Append(StorageCols, BodyValueCol), rows |-> rows]
BodyRow(nid, del, lang) == StorageRow(nid, del, 0, lang) @@ (BodyValueCol :> <<"body ", lang>>)

NodeIds == 1..MaxNid
OwnerIds == 1..(MaxNid + 1)      \* one id more than any node: an absent owner
TermIds == 1..MaxTid

Ascending(n) == [i \in 1..n |-> i]
Descending(n) == [i \in 1..n |-> n + 1 - i]
MapSeq(Op(_), s) == [i \in DOMAIN s |-> Op(s[i])]
Without(s, x) == SelectSeq(s, LAMBDA e : e # x)

BaseStore ==
    [users |-> <<UserRow(1)>>,
     users_data |-> <<UserDataRow(1, "enabled")>>,
     users_field_data |-> <<UserFieldDataRow(1)>>,
     optional |-> {"user__roles", "taxonomy_term__parent", "file_metadata"},
     user__roles |-> <<RoleRow(1, 0, "editor")>>,
     taxonomy_term_data |-> <<>>,
     taxonomy_term__parent |-> <<>>,
     taxonomy_term_field_data |-> <<>>,
     file_managed |-> <<>>,
     file_metadata |-> <<>>,
     path_alias |-> <<>>,
     node |-> MapSeq(NodeRow, Ascending(MaxNid)),
     node_field_data |-> MapSeq(NodeDataRow, Ascending(MaxNid)),
     tables |-> <<>>,
     taxonomy_index |-> <<>>]

\* users and their side tables; optional tables present or absent
EntityStores ==
    {[BaseStore EXCEPT !.optional = opt,
                       !.users = MapSeq(UserRow, us),
                       !.users_data = <<UserDataRow(1, "enabled"), UserDataRow(1, "enabled"),
                                        UserDataRow(1, "contact"), UserDataRow(2, "enabled")>>,
                       !.users_field_data = MapSeq(UserFieldDataRow, <<1, 2>>),
                       !.user__roles = <<RoleRow(1, 0, "editor"), RoleRow(1, 1, "admin"),
                                         RoleRow(2, 0, "editor"), RoleRow(1, 0, "author")>>,
                       !.taxonomy_term_data = MapSeq(TermRow, <<1>>),
                       !.taxonomy_term__parent = <<TermParentRow(1, 0, 0), TermParentRow(1, 0, 2),
                                                   TermParentRow(1, 1, 3), TermParentRow(2, 0, 0)>>,
                       !.file_managed = MapSeq(LAMBDA f : FileRow(f, 1), fs),
                       !.file_metadata = <<FileMetaRow(1, "width", 10), FileMetaRow(1, "height", 20),
                                           FileMetaRow(1, "width", 30), FileMetaRow(2, "width", 40)>>]
       : opt \in SUBSET {"user__roles", "taxonomy_term__parent", "file_metadata"},
         us \in {<<1>>, <<2, 1>>}, fs \in {<<>>, <<1>>}}

(***************************************************************************)
(* __init__: connect, open the cursor, create the empty collections.       *)
(***************************************************************************)
InitState(store) ==
    /\ db = store
    /\ pc = "load_users"
    /\ conn = "open"
    /\ cur = "open"
    /\ users = ODEmpty
    /\ users_data = ODEmpty
    /\ users_field_data = ODEmpty
    /\ taxonomies = ODEmpty
    /\ files = ODEmpty
    /\ path_alias = ODEmpty
    /\ nodes = ODEmpty
    /\ orphanedNodeBody = ODEmpty

\* SELECT ... WHERE deleted = 0 on a fixed-schema table
NotDeleted(rows) == SelectSeq(rows, LAMBDA r : r.deleted = 0)
\* SHOW TABLES LIKE '<optional table>'
TableExists(name) == name \in db.optional

(***************************************************************************)
(* _load_users                                                             *)
(***************************************************************************)
UsersRow(us, row) ==
    ODPut(us, row.uid, ("roles" :> <<>>) @@ RowToOd(row, UsersCols))

UsersDataRow(ud, row) ==
    LET inner == IF ODHas(ud, row.uid) THEN ud.map[row.uid] ELSE ODEmpty
    IN ODPut(ud, row.uid, ODPut(inner, row.name, RowToOd(row, UsersDataCols)))

UsersFieldDataRow(ufd, row) == ODPut(ufd, row.uid, RowToOd(row, UsersFieldDataCols))

UserRolesRow(us, row) ==
    LET uid == row.entity_id
    IN IF ODHas(us, uid)
       THEN [us EXCEPT !.map[uid].roles = Append(@, row.roles_target_id)]
       ELSE us

LoadUsers ==
    /\ pc = "load_users"
    /\ LET base == FoldLeft(UsersRow, users, db.users)
       IN users' = IF TableExists("user__roles")
                   THEN FoldLeft(UserRolesRow, base, NotDeleted(db.user__roles))
                   ELSE base
    /\ users_data' = FoldLeft(UsersDataRow, users_data, db.users_data)
    /\ users_field_data' = FoldLeft(UsersFieldDataRow, users_field_data, db.users_field_data)
    /\ pc' = "load_taxonomies"
    /\ UNCHANGED <<db, conn, cur, taxonomies, files, path_alias, nodes, orphanedNodeBody>>

(***************************************************************************)
(* _load_taxonomies                                                        *)
(***************************************************************************)
TermDataRow(ts, row) == ODPut(ts, row.tid, RowToOd(row, TermDataCols))

TermParent(ts, row) ==
    LET tid == row.entity_id
    IN IF ODHas(ts, tid)
       THEN LET term == ts.map[tid]
                old == IF "parent" \in DOMAIN term THEN term.parent ELSE <<>>
            IN [ts EXCEPT !.map[tid] = ("parent" :> Append(old, row.parent_target_id)) @@ term]
       ELSE ts

TermFieldData(ts, row) ==
    IF ODHas(ts, row.tid)
    THEN [ts EXCEPT !.map[row.tid] = ("field_data" :> RowToOd(row, TermFieldDataCols)) @@ @]
    ELSE ts

LoadTaxonomies ==
    /\ pc = "load_taxonomies"
    /\ LET base == FoldLeft(TermDataRow, taxonomies, db.taxonomy_term_data)
           parented == IF TableExists("taxonomy_term__parent")
                       THEN FoldLeft(TermParent, base, NotDeleted(db.taxonomy_term__parent))
                       ELSE base
       IN taxonomies' = FoldLeft(TermFieldData, parented, db.taxonomy_term_field_data)
    /\ pc' = "load_files"
    /\ UNCHANGED <<db, conn, cur, users, users_data, users_field_data, files, path_alias,
                   nodes, orphanedNodeBody>>

(***************************************************************************)
(* _load_files                                                             *)
(***************************************************************************)
FileManagedRow(fs, row) == ODPut(fs, row.fid, RowToOd(row, FileManagedCols))

FileMetadataRow(fs, row) ==
    IF ODHas(fs, row.fid)
    THEN LET file == fs.map[row.fid]
             old == IF "metadata" \in DOMAIN file THEN file.metadata ELSE ODEmpty
         IN [fs EXCEPT !.map[row.fid] = ("metadata" :> ODPut(old, row.name, row.value)) @@ file]
    ELSE fs

LoadFiles ==
    /\ pc = "load_files"
    /\ LET base == FoldLeft(FileManagedRow, files, db.file_managed)
       IN files' = IF TableExists("file_metadata")
                   THEN FoldLeft(FileMetadataRow, base, db.file_metadata)
                   ELSE base
    /\ pc' = "load_path_alias"
    /\ UNCHANGED <<db, conn, cur, users, users_data, users_field_data, taxonomies, path_alias,
                   nodes, orphanedNodeBody>>

(***************************************************************************)
(* _load_path_alias                                                        *)
(***************************************************************************)
PathAliasRow(pa, row) == ODPut(pa, row.alias, RowToOd(row, PathAliasCols))

LoadPathAlias ==
    /\ pc = "load_path_alias"
    /\ path_alias' = FoldLeft(PathAliasRow, path_alias, db.path_alias)
    /\ pc' = "load_nodes"
    /\ UNCHANGED <<db, conn, cur, users, users_data, users_field_data, taxonomies, files,
                   nodes, orphanedNodeBody>>


(***************************************************************************)
(* _load_nodes                                                             *)
(***************************************************************************)
\* SELECT * FROM node
NodeBase(ns, row) ==
    ODPut(ns, row.nid,
          [nid |-> row.nid, vid |-> row.vid, type |-> row.type, uuid |-> row.uuid,
           langcode |-> row.langcode, data |-> None, fields |-> ODEmpty,
           taxonomies |-> ODEmpty, children |-> <<>>, parents |-> <<>>])

\* SELECT * FROM node_field_data
NodeFieldData(ns, row) ==
    IF ODHas(ns, row.nid)
    THEN [ns EXCEPT !.map[row.nid].data =
              [title |-> row.title, uid |-> row.uid, status |-> row.status,
               created |-> row.created, changed |-> row.changed]]
    ELSE ns

\* SHOW TABLES LIKE 'node__field_%'
LikeNodeField(name) == StartsWith(name, <<"node__", "field_">>)
FieldTables == SelectSeq(db.tables, LAMBDA t : LikeNodeField(t.name))

\* tbl.replace("node__", "")
FieldName(tbl) == Remove(tbl, <<"node__">>)

\* SELECT * FROM `tbl` WHERE deleted = 0
LiveRows(table) == SelectSeq(table.rows, LAMBDA r : r[<<"deleted">>] = 0)

\* the field_row built from one storage row, before file linking
FieldRow(field_name, cols, row) ==
    LET prefix == field_name \o <<"_">>
        classified == SelectSeq(cols, LAMBDA c : StartsWith(c, prefix))
        values == FoldLeft(LAMBDA fr, c : (Remove(c, prefix) :> row[c]) @@ fr, <<>>, classified)
    IN (<<"delta">> :> row[<<"delta">>]) @@ values

\* field_row["file"] = self.files[fid]: the files record itself, not a copy;
\* field_row["file"]["user"] = ... therefore writes into self.files[fid]
LinkFile(fs, field_row) ==
    IF <<"target_id">> \in DOMAIN field_row /\ ODHas(fs, field_row[<<"target_id">>])
    THEN LET fid == field_row[<<"target_id">>]
             file_uid == fs.map[fid].uid
         IN [row   |-> (<<"file">> :> Ref("files", fid)) @@ field_row,
             files |-> IF ODHas(users, file_uid)
                       THEN [fs EXCEPT !.map[fid] = ("user" :> Ref("users", file_uid)) @@ @]
                       ELSE fs]
    ELSE [row |-> field_row, files |-> fs]

\* fields[field_name].append(field_row), creating the list on first use
StoreFieldRow(node, field_name, field_row) ==
    LET old == IF ODHas(node.fields, field_name) THEN node.fields.map[field_name] ELSE <<>>
    IN [node EXCEPT !.fields = ODPut(@, field_name, Append(old, field_row))]

\* one row of one field table
AttachRow(st, field_name, cols, row) ==
    LET nid == row[<<"entity_id">>]
    IN IF ~ODHas(st.nodes, nid)
       THEN st
       ELSE LET linked == LinkFile(st.files, FieldRow(field_name, cols, row))
            IN [nodes |-> [st.nodes EXCEPT !.map[nid] = StoreFieldRow(@, field_name, linked.row)],
                files |-> linked.files]

AttachTable(st, table) ==
    FoldLeft(LAMBDA acc, row : AttachRow(acc, FieldName(table.name), table.cols, row),
             st, LiveRows(table))

\* key = name.lower().replace(" ", "_")
TermKey(term, tid) ==
    LET name == IF "field_data" \in DOMAIN term THEN term.field_data.name ELSE Str(tid)
    IN ReplaceChar(Lower(name), " ", "_")

\* one row of taxonomy_index, were an already present key left alone
TaxonomyIndexRow_KeepFirst(ns, row) ==
    IF ODHas(ns, row.nid) /\ ODHas(taxonomies, row.tid)
         /\ ~ODHas(ns.map[row.nid].taxonomies, TermKey(taxonomies.map[row.tid], row.tid))
    THEN [ns EXCEPT !.map[row.nid].taxonomies =
              ODPut(@, TermKey(taxonomies.map[row.tid], row.tid), Ref("taxonomies", row.tid))]
    ELSE ns

\* one row of taxonomy_index
TaxonomyIndexRow(ns, row) ==
    IF ODHas(ns, row.nid) /\ ODHas(taxonomies, row.tid)
    THEN [ns EXCEPT !.map[row.nid].taxonomies =
              ODPut(@, TermKey(taxonomies.map[row.tid], row.tid), Ref("taxonomies", row.tid))]
    ELSE ns

\* the first alias, in path_alias order, whose row has this node's path
UrlOf(nid) ==
    LET path == NodePath(nid)
        hits == SelectSeq(path_alias.keys, LAMBDA a : path_alias.map[a].path = path)
    IN IF hits # <<>> THEN Head(hits) ELSE path

UrlAlias(ns) ==
    [ns EXCEPT !.map = [n \in DOMAIN ns.map |-> ("url" :> UrlOf(n)) @@ ns.map[n]]]

\* the (nid, field_name, item) triples the nested loops visit, in order
LinkItems(ns) ==
    FoldLeft(LAMBDA acc, nid :
               acc \o FoldLeft(LAMBDA acc2, f :
                                 acc2 \o [i \in DOMAIN ns.map[nid].fields.map[f] |->
                                            [nid |-> nid, field |-> f,
                                             item |-> ns.map[nid].fields.map[f][i]]],
                               <<>>, ns.map[nid].fields.keys),
             <<>>, ns.keys)

\* meta["data"]["title"] with data None raises TypeError
LinkStep(st, t) ==
    IF st.raised \/ <<"target_id">> \notin DOMAIN t.item
         \/ ~ODHas(st.nodes, t.item[<<"target_id">>])
    THEN st
    ELSE LET target_id == t.item[<<"target_id">>]
         IN IF st.nodes.map[t.nid].data = None
            THEN [st EXCEPT !.raised = TRUE]
            ELSE LET parent_entry == [nid |-> t.nid, title |-> st.nodes.map[t.nid].data.title,
                                      via |-> "entity_reference", field |-> t.field]
                     ns1 == [st.nodes EXCEPT !.map[target_id].parents = Append(@, parent_entry)]
                 IN IF ns1.map[target_id].data = None
                    THEN [nodes |-> ns1, raised |-> TRUE]
                    ELSE LET child_entry == [nid |-> target_id,
                                             title |-> ns1.map[target_id].data.title,
                                             field |-> t.field]
                         IN [nodes |-> [ns1 EXCEPT !.map[t.nid].children = Append(@, child_entry)],
                             raised |-> FALSE]

LoadNodes ==
    /\ pc = "load_nodes"
    /\ LET base == FoldLeft(NodeBase, nodes, db.node)
           withData == FoldLeft(NodeFieldData, base, db.node_field_data)
           attached == FoldLeft(AttachTable, [nodes |-> withData, files |-> files], FieldTables)
           indexed == FoldLeft(TaxonomyIndexRow, attached.nodes, db.taxonomy_index)
           withUrl == UrlAlias(indexed)
           linked == FoldLeft(LinkStep, [nodes |-> withUrl, raised |-> FALSE], LinkItems(withUrl))
       IN /\ nodes' = linked.nodes
          /\ files' = attached.files
          /\ pc' = IF linked.raised THEN "raised" ELSE "load_body"
    /\ UNCHANGED <<db, conn, cur, users, users_data, users_field_data, taxonomies, path_alias,
                   orphanedNodeBody>>

(***************************************************************************)
(* _load_body                                                              *)
(***************************************************************************)
\* SHOW TABLES LIKE 'node__body'
BodyTables == SelectSeq(db.tables, LAMBDA t : t.name = BodyTableName)

BodyRowStep(st, cols, row) ==
    LET nid == row[<<"entity_id">>]
        body_od == RowToOd(row, cols)
    IN IF ODHas(st.nodes, nid)
       THEN [st EXCEPT !.nodes.map[nid] = ("body" :> body_od) @@ @]
       ELSE [st EXCEPT !.orphans = ODPut(@, nid, body_od)]

LoadBody ==
    /\ pc = "load_body"
    /\ LET start == [nodes |-> nodes, orphans |-> ODEmpty]
           done == IF BodyTables = <<>>
                   THEN start
                   ELSE FoldLeft(LAMBDA acc, row : BodyRowStep(acc, BodyTables[1].cols, row),
                                 start, LiveRows(BodyTables[1]))
       IN /\ nodes' = done.nodes
          /\ orphanedNodeBody' = done.orphans
    /\ pc' = "close"
    /\ UNCHANGED <<db, conn, cur, users, users_data, users_field_data, taxonomies, files,
                   path_alias>>

(***************************************************************************)
(* self.cur.close(); self.conn.close()                                     *)
(***************************************************************************)
Close ==
    /\ pc = "close"
    /\ cur' = "closed"
    /\ conn' = "closed"
    /\ pc' = "done"
    /\ UNCHANGED <<db, users, users_data, users_field_data, taxonomies, files, path_alias,
                   nodes, orphanedNodeBody>>

(***************************************************************************)
(* Explored stores: each family varies the tables one stage reads.         *)
(***************************************************************************)
CaseStudies == <<"C", "a", "s", "e", " ", "S", "t", "u", "d", "i", "e", "s">>
case_studies == <<"c", "a", "s", "e", "_", "s", "t", "u", "d", "i", "e", "s">>
TermNames == {CaseStudies, case_studies, <<"2">>}

DistinctBy(s, Key(_)) == \A i, j \in DOMAIN s : Key(s[i]) = Key(s[j]) => i = j

TaxonomyStores ==
    {[BaseStore EXCEPT !.taxonomy_term_data = MapSeq(TermRow, ts),
                       !.taxonomy_term_field_data = fd,
                       !.taxonomy_index = ix]
       : ts \in {Ascending(MaxTid), Descending(MaxTid), Ascending(MaxTid - 1)},
         fd \in {s \in SeqsUpTo({TermFieldDataRow(t, n) : t \in TermIds, n \in TermNames}, MaxTid) :
                   \A i, j \in DOMAIN s : i < j => s[i].tid < s[j].tid},
         ix \in SeqsUpTo({IndexRow(1, t) : t \in 1..(MaxTid + 1)} \cup {IndexRow(MaxNid + 1, 1)},
                          MaxIndexRows)}

AliasIds == 1..MaxAliasRows
AliasStores ==
    {[BaseStore EXCEPT !.path_alias = pa]
       : pa \in {s \in SeqsUpTo({AliasRow(i, NodePath(n), <<"/alias-">> \o Str(a)) :
                                   i \in AliasIds, n \in OwnerIds, a \in AliasIds},
                                MaxAliasRows) :
                   DistinctBy(s, LAMBDA r : r.id) /\ DistinctBy(s, LAMBDA r : r.alias)}}

NodeOrders == {Ascending(n) : n \in NodeIds} \cup {Descending(MaxNid)}
NodeDataSets == {Ascending(MaxNid + 1)} \cup {Without(Ascending(MaxNid), n) : n \in NodeIds}

\* rows of node__field_ref in store order, delta counting up from 0
RefRows(ps) == [i \in DOMAIN ps |-> RefRow(ps[i][1], ps[i][2], i - 1, ps[i][3])]

\* entity references between nodes, with nodes lacking a node_field_data row
LinkStores ==
    {[BaseStore EXCEPT !.node = MapSeq(NodeRow, ns),
                       !.node_field_data = MapSeq(NodeDataRow, ds),
                       !.tables = <<RefTable(RefRows(ps))>>]
       : ns \in NodeOrders, ds \in NodeDataSets,
         ps \in SeqsUpTo(OwnerIds \X {0} \X NodeIds, MaxFieldRows)}

\* references that resolve to files, owned by known and unknown users
FileStores ==
    {[BaseStore EXCEPT !.file_managed = fs,
                       !.file_metadata = <<FileMetaRow(MaxNid, "width", 10)>>,
                       !.tables = <<RefTable(RefRows(ps))>>]
       : fs \in {<<>>, <<FileRow(MaxNid, 1)>>, <<FileRow(MaxNid, 1), FileRow(MaxNid + 1, 0)>>},
         ps \in SeqsUpTo({1} \X (0..1) \X OwnerIds, MaxFieldRows)}

\* value fields, fields without value columns, and several tables at once
ValueStores ==
    {[BaseStore EXCEPT !.tables = tbls]
       : tbls \in
           {<<TxtTable(rows)>> :
              rows \in SeqsUpTo({TxtRow(n, del, d, 7) : n \in {1, MaxNid + 1}, del \in 0..1, d \in 0..1},
                                MaxFieldRows)}
           \cup
           {<<BareTable(rows), RefTable(<<RefRow(1, 0, 0, MaxNid)>>), TxtTable(<<TxtRow(1, 0, 0, 7)>>)>> :
              rows \in SeqsUpTo({BareRow(n, del, 0) : n \in OwnerIds, del \in 0..1}, MaxFieldRows)}}

BodyStores ==
    {[BaseStore EXCEPT !.tables = <<RefTable(<<>>), BodyTable(rows)>>]
       : rows \in SeqsUpTo({BodyRow(n, del, l) : n \in OwnerIds, del \in 0..1, l \in {"en", "fr"}},
                           MaxBodyRows)}

Init ==
    \/ InitState(BaseStore)
    \/ \E store \in EntityStores : InitState(store)
    \/ \E store \in TaxonomyStores : InitState(store)
    \/ \E store \in AliasStores : InitState(store)
    \/ \E store \in LinkStores : InitState(store)
    \/ \E store \in FileStores : InitState(store)
    \/ \E store \in ValueStores : InitState(store)
    \/ \E store \in BodyStores : InitState(store)

Next ==
    \/ LoadUsers
    \/ LoadTaxonomies
    \/ LoadFiles
    \/ LoadPathAlias
    \/ LoadNodes
    \/ LoadBody
    \/ Close

Spec == Init /\ [][Next]_vars

\* runs over the stores that vary the taxonomy tables
InitTaxonomy == \E store \in TaxonomyStores : InitState(store)
SpecTaxonomy == InitTaxonomy /\ [][Next]_vars

\* the run got past _load_nodes
NodesLoaded == pc \in {"load_body", "close", "done"}

(***************************************************************************)
(* Properties.                                                             *)
(***************************************************************************)
NodeOf(n) == nodes.map[n]
LoadedNids == DOMAIN nodes.map
\* live rows of a field table owned by node n
OwnedRows(table, n) == SelectSeq(LiveRows(table), LAMBDA r : r[<<"entity_id">>] = n)
IsList(v) == DOMAIN v = 1..Cardinality(DOMAIN v)

\* C1: after loading, every children entry (nid = T, field = F) of a node S
\* has exactly one matching parents entry (nid = S, field = F) on T and vice
\* versa, and the two entries of a pair have the same keys.
MatchingParents(s, c) ==
    {j \in DOMAIN NodeOf(c.nid).parents :
       NodeOf(c.nid).parents[j].nid = s /\ NodeOf(c.nid).parents[j].field = c.field}
MatchingChildren(t, p) ==
    {i \in DOMAIN NodeOf(p.nid).children :
       NodeOf(p.nid).children[i].nid = t /\ NodeOf(p.nid).children[i].field = p.field}
C1_EdgeSymmetry ==
    pc = "done" =>
      \A n \in LoadedNids :
        /\ \A i \in DOMAIN NodeOf(n).children :
             LET c == NodeOf(n).children[i]
             IN /\ Cardinality(MatchingParents(n, c)) = 1
                /\ \A j \in MatchingParents(n, c) :
                     /\ DOMAIN NodeOf(c.nid).parents[j] = DOMAIN c
                     /\ NodeOf(c.nid).parents[j].title = NodeOf(n).data.title
        /\ \A j \in DOMAIN NodeOf(n).parents :
             LET p == NodeOf(n).parents[j]
             IN /\ Cardinality(MatchingChildren(n, p)) = 1
                /\ \A i \in MatchingChildren(n, p) :
                     /\ DOMAIN NodeOf(p.nid).children[i] = DOMAIN p
                     /\ NodeOf(p.nid).children[i].title = NodeOf(n).data.title

\* C2: after loading every node has a url: /node/<nid> when no path_alias row
\* has that path, otherwise the alias of the matching row with the highest id.
AliasRowsFor(n) == {i \in DOMAIN db.path_alias : db.path_alias[i].path = NodePath(n)}
HighestAliasRow(n) ==
    CHOOSE i \in AliasRowsFor(n) :
      \A j \in AliasRowsFor(n) : db.path_alias[j].id <= db.path_alias[i].id
C2_UrlHighestAlias ==
    NodesLoaded =>
      \A n \in LoadedNids :
        /\ "url" \in DOMAIN NodeOf(n)
        /\ NodeOf(n).url = IF AliasRowsFor(n) = {} THEN NodePath(n)
                           ELSE db.path_alias[HighestAliasRow(n)].alias

\* C3: fields[field_name] is a bare value-map when the table holds exactly one
\* live row for the node, and a list in ascending delta order when it holds
\* two or more.
C3_SingleOrList ==
    NodesLoaded =>
      \A n \in LoadedNids : \A k \in DOMAIN FieldTables :
        LET owned == OwnedRows(FieldTables[k], n)
            f == FieldName(FieldTables[k].name)
        IN Len(owned) >= 1 =>
             /\ ODHas(NodeOf(n).fields, f)
             /\ LET v == NodeOf(n).fields.map[f]
                IN IF Len(owned) = 1
                   THEN ~IsList(v)
                   ELSE /\ IsList(v)
                        /\ Len(v) = Len(owned)
                        /\ \A i, j \in DOMAIN v :
                             i < j => v[i][<<"delta">>] <= v[j][<<"delta">>]

\* C4: every live node__body row is the body of its node when that node is
\* loaded, and otherwise is in the orphan collection under its entity_id and
\* in no node; no body row is lost.
C4_OrphanRouting ==
    pc = "done" =>
      \A k \in DOMAIN BodyTables : \A i \in DOMAIN LiveRows(BodyTables[k]) :
        LET row == LiveRows(BodyTables[k])[i]
            nid == row[<<"entity_id">>]
            body_od == RowToOd(row, BodyTables[k].cols)
        IN IF nid \in LoadedNids
           THEN /\ "body" \in DOMAIN NodeOf(nid)
                /\ NodeOf(nid).body = body_od
                /\ \A o \in DOMAIN orphanedNodeBody.map : orphanedNodeBody.map[o] # body_od
           ELSE /\ ODHas(orphanedNodeBody, nid)
                /\ orphanedNodeBody.map[nid] = body_od
                /\ \A n \in LoadedNids :
                     "body" \in DOMAIN NodeOf(n) => NodeOf(n).body # body_od

\* C5: a field table none of whose columns carries the field-name prefix puts
\* no key on any node, and a field with no live row for a node leaves the key
\* absent on that node.
HasValueColumns(table) ==
    \E i \in DOMAIN table.cols : StartsWith(table.cols[i], FieldName(table.name) \o <<"_">>)
C5_NoKeyWithoutValues ==
    NodesLoaded =>
      \A n \in LoadedNids : \A k \in DOMAIN FieldTables :
        (~HasValueColumns(FieldTables[k]) \/ OwnedRows(FieldTables[k], n) = <<>>)
          => ~ODHas(NodeOf(n).fields, FieldName(FieldTables[k].name))

\* C6: the cursor and the connection are closed whenever construction ends,
\* by returning or by a load step raising.
C6_SessionReleased ==
    pc \in {"done", "raised"} => cur = "closed" /\ conn = "closed"

\* C7: nodes 1 and 2, one live reference row from 1 to 2: nodes[1].children is
\* exactly [{nid 2, title of 2, field}] and nodes[2].parents is exactly
\* [{nid 1, title of 1, field}], with no other keys.
OneReferenceScenario ==
    /\ {db.node[i].nid : i \in DOMAIN db.node} = {1, 2}
    /\ {1, 2} \subseteq {db.node_field_data[i].nid : i \in DOMAIN db.node_field_data}
    /\ db.tables = <<RefTable(LiveRows(RefTable(db.tables[1].rows)))>>
    /\ Len(db.tables[1].rows) = 1
    /\ db.tables[1].rows[1][<<"entity_id">>] = 1
    /\ db.tables[1].rows[1][RefTargetCol] = 2
C7_TwoNodeScenario ==
    (pc = "done" /\ db.tables # <<>> /\ OneReferenceScenario) =>
      /\ NodeOf(1).children = <<[nid |-> 2, title |-> TitleOf(2), field |-> FieldName(RefTableName)]>>
      /\ NodeOf(2).parents = <<[nid |-> 1, title |-> TitleOf(1), field |-> FieldName(RefTableName)]>>

\* C8: for every taxonomy_index row (nid, tid) with a loaded node and a loaded
\* term, the node's taxonomies hold a term record under the key derived from
\* the term's name (lower-cased, spaces replaced by "_"; "Case Studies" gives
\* "case_studies"); among the assigned terms of a node that derive one key,
\* the record kept is that of the row processed last.  No other key appears.
DerivedKey(tid) ==
    LET term == taxonomies.map[tid]
    IN IF "field_data" \in DOMAIN term
       THEN ReplaceChar(Lower(term.field_data.name), " ", "_")
       ELSE Str(tid)
AssignedRows(n, key) ==
    {i \in DOMAIN db.taxonomy_index :
       /\ db.taxonomy_index[i].nid = n
       /\ ODHas(taxonomies, db.taxonomy_index[i].tid)
       /\ DerivedKey(db.taxonomy_index[i].tid) = key}
LastAssigned(n, key) ==
    CHOOSE i \in AssignedRows(n, key) : \A j \in AssignedRows(n, key) : j <= i
NamedCaseStudies(tid) ==
    /\ "field_data" \in DOMAIN taxonomies.map[tid]
    /\ taxonomies.map[tid].field_data.name = CaseStudies
C8_TaxonomyKeys ==
    NodesLoaded =>
      \A n \in LoadedNids :
        /\ \A i \in DOMAIN db.taxonomy_index :
             LET row == db.taxonomy_index[i]
             IN (row.nid = n /\ ODHas(taxonomies, row.tid)) =>
                  LET key == DerivedKey(row.tid)
                      kept == db.taxonomy_index[LastAssigned(n, key)].tid
                  IN /\ ODHas(NodeOf(n).taxonomies, key)
                     /\ NodeOf(n).taxonomies.map[key] = Ref("taxonomies", kept)
                     /\ NamedCaseStudies(row.tid) => key = case_studies
        /\ \A key \in DOMAIN NodeOf(n).taxonomies.map : AssignedRows(n, key) # {}
\* two terms with different names collide on case_studies on one node, and
\* the later row's term is the one held
C8_Witness ==
    /\ pc = "done"
    /\ \E n \in LoadedNids : \E i, j \in DOMAIN db.taxonomy_index :
         /\ i < j
         /\ {i, j} \subseteq AssignedRows(n, case_studies)
         /\ db.taxonomy_index[i].tid # db.taxonomy_index[j].tid
         /\ NamedCaseStudies(db.taxonomy_index[i].tid)
         /\ ~NamedCaseStudies(db.taxonomy_index[j].tid)
         /\ j = LastAssigned(n, case_studies)
         /\ NodeOf(n).taxonomies.map[case_studies] = Ref("taxonomies", db.taxonomy_index[j].tid)

\* C9: attaching field rows in _load_nodes leaves every record of files and
\* of users as the entity loader produced it.
C9_FilesUntouched ==
    [][pc = "load_nodes" => (files' = files /\ users' = users)]_vars

\* C10: node loading never aborts: a field row whose entity_id is not a loaded
\* node adds nothing to any node, and a reference from or to a node without a
\* node_field_data row does not raise.
C10_NoAbort ==
    /\ pc # "raised"
    /\ NodesLoaded =>
         \A n \in LoadedNids : \A f \in DOMAIN NodeOf(n).fields.map :
           \E k \in DOMAIN FieldTables :
             /\ FieldName(FieldTables[k].name) = f
             /\ Len(NodeOf(n).fields.map[f]) = Len(OwnedRows(FieldTables[k], n))

====
